---- MODULE Spec2Model ----
(***************************************************************************)
(* Model of the portfolio analytics aggregation of the dashboard:          *)
(* api.analyzePortfolio (src/src/services/api.ts) and handleResponse.      *)
(*                                                                         *)
(* JavaScript values are modelled by records of one shape, [k, n, d]:      *)
(*   k = "fin"        the finite number n/d, in lowest terms with d > 0    *)
(*   k = "inf"        +Infinity (n = 1) or -Infinity (n = -1)              *)
(*   k = "nan"        NaN                                                  *)
(*   k = "undefined"  the value of a missing property                      *)
(*   k = "date"       a date string, n-th date of the d-th symbol's feed   *)
(* Finite numbers are exact rationals where the code computes IEEE         *)
(* doubles: rounding is not modelled, the special values are.              *)
(***************************************************************************)
EXTENDS Integers, Sequences, FiniteSets, TLC

VARIABLES
    pc,           \* position of the invocation: "idle", "fetching", "done"
    symbols,      \* argument symbols of analyzePortfolio
    weighting,    \* argument weighting
    rebalance,    \* argument rebalance
    response,     \* the HTTP response received, once there is one
    result,       \* settlement of the returned promise
    requests,     \* number of fetch calls issued
    fallbackRuns, \* number of evaluations of the fallback closure
    assetPc,      \* position of the single-asset invocation
    assetCall,    \* method and arguments of the single-asset invocation
    assetRequest, \* the request it issued, once there is one
    assetResponse,\* the HTTP response it received, once there is one
    assetResult,  \* settlement of its returned promise
    page,         \* what the Portfolio page displays
    earlier,      \* response and settlement of the invocations made before
    now,          \* the time, in ticks
    tradeHistory, \* props, state and requests of the TradeHistory component
    paperTrading  \* state, calls and positions of the PaperTrading page

assetVars == <<assetPc, assetCall, assetRequest, assetResponse, assetResult>>

uiVars == <<tradeHistory, paperTrading>>

restVars == <<earlier, now, tradeHistory, paperTrading>>

vars == <<pc, symbols, weighting, rebalance, response, result, requests, fallbackRuns,
          assetPc, assetCall, assetRequest, assetResponse, assetResult, page,
          earlier, now, tradeHistory, paperTrading>>

----------------------------------------------------------------------------
\* Bounds of the checked inputs

\* longest price history drawn for a symbol
MaxHist == 2

\* largest number of correlation pairs the backend supplies
MaxPairs == 3

----------------------------------------------------------------------------
\* JavaScript numbers

Undefined == [k |-> "undefined", n |-> 0, d |-> 0]

NaN == [k |-> "nan", n |-> 0, d |-> 0]

Inf(s) == [k |-> "inf", n |-> s, d |-> 0]

Abs(x) == IF x < 0 THEN -x ELSE x

Sign(x) == IF x < 0 THEN -1 ELSE IF x > 0 THEN 1 ELSE 0

RECURSIVE Gcd(_, _)
Gcd(a, b) == IF b = 0 THEN a ELSE Gcd(b, a % b)

\* the finite number n/d (d # 0), in lowest terms
Fin(n, d) ==
    LET g == Gcd(Abs(n), Abs(d))
        s == IF d < 0 THEN -1 ELSE 1
    IN  [k |-> "fin", n |-> (s * n) \div g, d |-> (s * d) \div g]

Num(n) == Fin(n, 1)

DateStr(i, feed) == [k |-> "date", n |-> i, d |-> feed]

IsZero(x) == x.k = "fin" /\ x.n = 0

\* ToBoolean of a number or a missing property: 0, NaN and undefined are falsy
Truthy(x) == ~(x.k = "undefined" \/ x.k = "nan" \/ IsZero(x))

\* ToNumber: undefined converts to NaN
ToNumber(x) == IF x.k = "undefined" THEN NaN ELSE x

\* x / y
JsDiv(x, y) ==
    LET a == ToNumber(x)
        b == ToNumber(y)
    IN  IF a.k = "nan" \/ b.k = "nan" THEN NaN
        ELSE IF a.k = "inf" THEN (IF b.k = "inf" THEN NaN
                                  ELSE Inf(a.n * (IF b.n < 0 THEN -1 ELSE 1)))
        ELSE IF b.k = "inf" THEN Num(0)
        ELSE IF b.n = 0 THEN (IF a.n = 0 THEN NaN ELSE Inf(Sign(a.n)))
        ELSE Fin(a.n * b.d, a.d * b.n)

\* x * y
JsMul(x, y) ==
    LET a == ToNumber(x)
        b == ToNumber(y)
    IN  IF a.k = "nan" \/ b.k = "nan" THEN NaN
        ELSE IF a.k = "inf" \/ b.k = "inf"
             THEN (IF Sign(a.n) * Sign(b.n) = 0 THEN NaN
                   ELSE Inf(Sign(a.n) * Sign(b.n)))
        ELSE Fin(a.n * b.n, a.d * b.d)

\* x + y
JsAdd(x, y) ==
    LET a == ToNumber(x)
        b == ToNumber(y)
    IN  IF a.k = "nan" \/ b.k = "nan" THEN NaN
        ELSE IF a.k = "inf" /\ b.k = "inf" THEN (IF a.n = b.n THEN a ELSE NaN)
        ELSE IF a.k = "inf" THEN a
        ELSE IF b.k = "inf" THEN b
        ELSE Fin(a.n * b.d + b.n * a.d, a.d * b.d)

\* a variant that converts to a number and keeps the sign
JsAbsKeepingSign(x) == ToNumber(x)

\* Math.abs(x)
JsAbs(x) ==
    LET a == ToNumber(x)
    IN  IF a.k = "nan" THEN NaN
        ELSE IF a.k = "inf" THEN Inf(1)
        ELSE Fin(Abs(a.n), a.d)

\* obj[key] for a Record<string, T>: a missing key reads as undefined
Get(obj, key) == IF key \in DOMAIN obj THEN obj[key] ELSE Undefined

\* the empty object {}
EmptyObj == [x \in {} |-> Undefined]

\* an optional property of the response body
Absent == [present |-> FALSE, v |-> EmptyObj]

Present(v) == [present |-> TRUE, v |-> v]

----------------------------------------------------------------------------
\* api.analyzePortfolio, after the response body has been decoded

\* a variant that falls back on the mirrored pair before the default
CorrelationOfMirrored(cm, asset1, asset2) ==
    LET supplied == IF asset1 \in DOMAIN cm THEN Get(cm[asset1], asset2) ELSE Undefined
        mirrored == IF asset2 \in DOMAIN cm THEN Get(cm[asset2], asset1) ELSE Undefined
    IN  IF Truthy(supplied) THEN supplied
        ELSE IF Truthy(mirrored) THEN mirrored
        ELSE IF asset1 = asset2 THEN Num(1) ELSE Num(0)

\* data.correlation_matrix[asset1]?.[asset2] || (asset1 === asset2 ? 1 : 0)
CorrelationOf(cm, asset1, asset2) ==
    LET supplied == IF asset1 \in DOMAIN cm THEN Get(cm[asset1], asset2) ELSE Undefined
    IN  IF Truthy(supplied) THEN supplied
        ELSE IF asset1 = asset2 THEN Num(1) ELSE Num(0)

\* a variant whose inner loop starts after the diagonal
CorrelationRowUpper(syms, cm, asset1) ==
    LET first == CHOOSE i \in 1..Len(syms) : syms[i] = asset1
    IN  [j \in 1..(Len(syms) - first) |->
            [asset1 |-> asset1, asset2 |-> syms[first + j],
             correlation |-> CorrelationOf(cm, asset1, syms[first + j])]]

\* a variant that reads every row from the first symbol's row
CorrelationRowOfFirst(syms, cm, asset1) ==
    [j \in 1..Len(syms) |->
        [asset1 |-> asset1, asset2 |-> syms[j],
         correlation |-> CorrelationOf(cm, syms[1], syms[j])]]

\* a variant that pushes nothing for an asset1 without a row
CorrelationRowOfKnown(syms, cm, asset1) ==
    IF asset1 \notin DOMAIN cm THEN <<>>
    ELSE [j \in 1..Len(syms) |->
            [asset1 |-> asset1, asset2 |-> syms[j],
             correlation |-> CorrelationOf(cm, asset1, syms[j])]]

\* the entries pushed by the inner loop for one asset1
CorrelationRow(syms, cm, asset1) ==
    [j \in 1..Len(syms) |->
        [asset1 |-> asset1, asset2 |-> syms[j],
         correlation |-> CorrelationOf(cm, asset1, syms[j])]]

RECURSIVE CorrelationRows(_, _, _)
CorrelationRows(syms, cm, i) ==
    IF i > Len(syms) THEN <<>>
    ELSE CorrelationRow(syms, cm, syms[i]) \o CorrelationRows(syms, cm, i + 1)

\* the correlationArray loops; reading a property of a missing
\* correlation_matrix throws a TypeError in the first iteration
BuildCorrelationArray(syms, data) ==
    IF Len(syms) > 0 /\ ~data.correlation_matrix.present
    THEN [threw |-> TRUE, v |-> <<>>]
    ELSE [threw |-> FALSE, v |-> CorrelationRows(syms, data.correlation_matrix.v, 1)]

\* const weights = data.weights || {}
WeightsOf(data) == IF data.weights.present THEN data.weights.v ELSE EmptyObj

\* the copy made of one backend metrics record
CopyMetrics(m) ==
    [total_return |-> m.total_return, annualized_return |-> m.annualized_return,
     volatility |-> m.volatility, sharpe_ratio |-> m.sharpe_ratio,
     max_drawdown |-> m.max_drawdown, cumulative_returns |-> <<>>]

\* a variant that copies every entry the backend sent
BuildIndividualMetricsOfAll(syms, data) ==
    IF Len(syms) > 0 /\ ~data.individual_metrics.present
    THEN [threw |-> TRUE, v |-> EmptyObj]
    ELSE [threw |-> FALSE,
          v |-> [s \in DOMAIN data.individual_metrics.v
                    |-> CopyMetrics(data.individual_metrics.v[s])]]

\* the individualMetrics loop
BuildIndividualMetrics(syms, data) ==
    IF Len(syms) > 0 /\ ~data.individual_metrics.present
    THEN [threw |-> TRUE, v |-> EmptyObj]
    ELSE [threw |-> FALSE,
          v |-> [s \in {syms[i] : i \in 1..Len(syms)} \cap DOMAIN data.individual_metrics.v
                    |-> CopyMetrics(data.individual_metrics.v[s])]]

\* history && history[0] && history[i], i counted from 0
HasPoint(histories, s, i) ==
    /\ s \in DOMAIN histories
    /\ Len(histories[s]) >= 1
    /\ Len(histories[s]) >= i + 1

\* a variant that rebases on the previous close instead of the first one
NormalizedOnPrevious(history, i) ==
    JsDiv(history[i + 1].close, history[IF i = 0 THEN 1 ELSE i].close)

\* history[i].close / history[0].close, i counted from 0
Normalized(history, i) == JsDiv(history[i + 1].close, history[1].close)

\* a variant that writes 0 into the point for a symbol without an element
RECURSIVE FallbackLoopZeroFill(_, _, _, _, _, _)
FallbackLoopZeroFill(syms, histories, weights, date, i, n) ==
    IF n = 0 THEN [point |-> [key \in {"date"} |-> date], portfolioValue |-> Num(0)]
    ELSE LET before == FallbackLoopZeroFill(syms, histories, weights, date, i, n - 1)
             symbol == syms[n]
             normalizedValue == IF HasPoint(histories, symbol, i)
                                THEN Normalized(histories[symbol], i) ELSE Num(0)
         IN  [point |-> [key \in DOMAIN before.point \cup {symbol} |->
                            IF key = symbol THEN normalizedValue ELSE before.point[key]],
              portfolioValue |-> IF HasPoint(histories, symbol, i)
                                 THEN JsAdd(before.portfolioValue,
                                            JsMul(normalizedValue, Get(weights, symbol)))
                                 ELSE before.portfolioValue]

\* the for-loop of one date: the point and portfolioValue after the symbols
\* syms[1..n] have been visited
RECURSIVE FallbackLoop(_, _, _, _, _, _)
FallbackLoop(syms, histories, weights, date, i, n) ==
    IF n = 0 THEN [point |-> [key \in {"date"} |-> date], portfolioValue |-> Num(0)]
    ELSE LET before == FallbackLoop(syms, histories, weights, date, i, n - 1)
             symbol == syms[n]
         IN  IF HasPoint(histories, symbol, i)
             THEN LET history == histories[symbol]
                      normalizedValue == Normalized(history, i)
                  IN  [point |-> [key \in DOMAIN before.point \cup {symbol} |->
                                     IF key = symbol THEN normalizedValue
                                     ELSE before.point[key]],
                       portfolioValue |-> JsAdd(before.portfolioValue,
                                                JsMul(normalizedValue, Get(weights, symbol)))]
             ELSE before

\* a variant that weights every symbol by 1 after the first date
FallbackPointReweighted(syms, histories, weights, date, i) ==
    LET used == IF i = 0 THEN weights ELSE [s \in DOMAIN weights |-> Num(1)]
        after == FallbackLoop(syms, histories, used, date, i, Len(syms))
    IN  [key \in DOMAIN after.point \cup {"portfolio"} |->
            IF key = "portfolio" THEN after.portfolioValue ELSE after.point[key]]

\* the callback of dates.map: point.portfolio is assigned last
FallbackPoint(syms, histories, weights, date, i) ==
    LET after == FallbackLoop(syms, histories, weights, date, i, Len(syms))
    IN  [key \in DOMAIN after.point \cup {"portfolio"} |->
            IF key = "portfolio" THEN after.portfolioValue ELSE after.point[key]]

\* a variant that takes the date axis from the last symbol's history
FallbackChartOfLast(syms, data, weights) ==
    IF ~data.histories.present THEN [threw |-> TRUE, v |-> <<>>]
    ELSE LET histories == data.histories.v
             last == syms[Len(syms)]
             dates == IF last \in DOMAIN histories
                      THEN [i \in 1..Len(histories[last]) |-> histories[last][i].date]
                      ELSE <<>>
         IN  [threw |-> FALSE,
              v |-> [i \in 1..Len(dates) |->
                        FallbackPoint(syms, histories, weights, dates[i], i - 1)]]

\* the fallback closure; data.histories[firstSymbol] throws a TypeError when
\* histories is missing, and symbols[0] of an empty list is undefined
FallbackChart(syms, data, weights) ==
    IF ~data.histories.present THEN [threw |-> TRUE, v |-> <<>>]
    ELSE LET histories == data.histories.v
             dates == IF Len(syms) > 0 /\ syms[1] \in DOMAIN histories
                      THEN [i \in 1..Len(histories[syms[1]]) |-> histories[syms[1]][i].date]
                      ELSE <<>>
         IN  [threw |-> FALSE,
              v |-> [i \in 1..Len(dates) |->
                        FallbackPoint(syms, histories, weights, dates[i], i - 1)]]

\* a variant that takes a backend series only from its second point on
UsesLongBackendChart(data) == data.chart_data.present /\ Len(data.chart_data.v) > 1

\* (data as any).chart_data || (() => {...})(): an array, also an empty
\* one, is truthy
UsesBackendChart(data) == data.chart_data.present

ResolveChartData(syms, data, weights) ==
    IF UsesBackendChart(data)
    THEN [threw |-> FALSE, v |-> data.chart_data.v, fallbackRuns |-> 0]
    ELSE LET fb == FallbackChart(syms, data, weights)
         IN  [threw |-> fb.threw, v |-> fb.v, fallbackRuns |-> 1]

\* a variant that turns the portfolio max_drawdown into a magnitude, as the
\* single-asset strategy path does
BuildMetricsWithMagnitude(data) ==
    IF ~data.portfolio_metrics.present THEN [threw |-> TRUE, v |-> EmptyObj]
    ELSE LET pm == data.portfolio_metrics.v
         IN  [threw |-> FALSE,
              v |-> [total_return |-> pm.total_return,
                     annualized_return |-> pm.annualized_return,
                     volatility |-> pm.volatility,
                     sharpe_ratio |-> pm.sharpe_ratio,
                     max_drawdown |-> JsAbs(pm.max_drawdown),
                     diversification_ratio |-> data.diversification_ratio]]

\* the metrics of the returned object; data.portfolio_metrics.total_return
\* throws a TypeError when portfolio_metrics is missing
BuildMetrics(data) ==
    IF ~data.portfolio_metrics.present THEN [threw |-> TRUE, v |-> EmptyObj]
    ELSE LET pm == data.portfolio_metrics.v
         IN  [threw |-> FALSE,
              v |-> [total_return |-> pm.total_return,
                     annualized_return |-> pm.annualized_return,
                     volatility |-> pm.volatility,
                     sharpe_ratio |-> pm.sharpe_ratio,
                     max_drawdown |-> pm.max_drawdown,
                     diversification_ratio |-> data.diversification_ratio]]

NoValue == [none |-> TRUE]

\* an error message: a text, followed by the status where the code appends it
Msg(text, status) == [text |-> text, status |-> status]

Rejected(name, message, runs) ==
    [k |-> "rejected", value |-> NoValue, name |-> name, message |-> message,
     fallbackRuns |-> runs]

Fulfilled(value, runs) ==
    [k |-> "fulfilled", value |-> value, name |-> "", message |-> Msg("", 0),
     fallbackRuns |-> runs]

Pending == [k |-> "pending", value |-> NoValue, name |-> "", message |-> Msg("", 0),
            fallbackRuns |-> 0]

\* the statements of analyzePortfolio after handleResponse, in order
Assemble(syms, wgt, reb, data) ==
    LET corr == BuildCorrelationArray(syms, data)
        weights == WeightsOf(data)
        indiv == BuildIndividualMetrics(syms, data)
        chart == ResolveChartData(syms, data, weights)
        metrics == BuildMetrics(data)
    IN  IF corr.threw THEN Rejected("TypeError", Msg("correlation_matrix", 0), 0)
        ELSE IF indiv.threw THEN Rejected("TypeError", Msg("individual_metrics", 0), 0)
        ELSE IF chart.threw THEN Rejected("TypeError", Msg("histories", 0), chart.fallbackRuns)
        ELSE IF metrics.threw
             THEN Rejected("TypeError", Msg("portfolio_metrics", 0), chart.fallbackRuns)
        ELSE Fulfilled([symbols |-> syms,
                        weighting_strategy |-> wgt,
                        rebalance_frequency |-> reb,
                        metrics |-> metrics.v,
                        weights |-> weights,
                        correlation_matrix |-> corr.v,
                        chart_data |-> chart.v,
                        individual_metrics |-> indiv.v], chart.fallbackRuns)

----------------------------------------------------------------------------
\* handleResponse

\* a response whose status is not ok: the error body is decoded, a body that
\* does not parse counts as {detail: 'Unknown error'}, and an Error is thrown
\* with error.detail || `HTTP error ${response.status}`
HandleErrorResponse(resp) ==
    LET detail == IF ~resp.body.parses THEN "Unknown error" ELSE resp.body.detail
    IN  Rejected("Error",
                 IF detail # "" THEN Msg(detail, 0) ELSE Msg("HTTP error", resp.status),
                 0)

\* a variant whose settlement carries the time of the invocation
SettleStamped(syms, wgt, reb, resp) ==
    LET settled == IF ~resp.ok THEN HandleErrorResponse(resp)
                   ELSE IF ~resp.body.parses
                        THEN Rejected("SyntaxError", Msg("Unexpected token", 0), 0)
                   ELSE Assemble(syms, wgt, reb, resp.body.data)
    IN  [settled EXCEPT !.message.status = now]

\* handleResponse followed by the rest of analyzePortfolio
Settle(syms, wgt, reb, resp) ==
    IF ~resp.ok THEN HandleErrorResponse(resp)
    ELSE IF ~resp.body.parses THEN Rejected("SyntaxError", Msg("Unexpected token", 0), 0)
    ELSE Assemble(syms, wgt, reb, resp.body.data)

----------------------------------------------------------------------------
\* The inputs drawn

Syms == {"A", "B", "C"}

\* the symbols that have price feeds and weights in the drawn bodies
HistSyms == {"A", "B"}

Range(f) == {f[x] : x \in DOMAIN f}

\* ordered, duplicate-free symbol lists of at least two entries
SymbolSets ==
    {q \in UNION {[1..n -> Syms] : n \in 2..Cardinality(Syms)} :
        Cardinality(Range(q)) = Len(q)}

ChartSymbolSets == {<<"A", "B">>, <<"B", "A">>, <<"A", "B", "C">>}

\* supplied correlations: zero, inside (-1, 1), outside [-1, 1]
CorrVals == {Num(0), Fin(1, 2), Fin(-3, 2)}

MatrixOf(f) ==
    [a \in {p[1] : p \in DOMAIN f} |->
        [b \in {p[2] : p \in {q \in DOMAIN f : q[1] = a}} |-> f[<<a, b>>]]]

CorrMatrices ==
    {Absent} \cup
    {Present(MatrixOf(f)) :
        f \in UNION {[P -> CorrVals] :
                P \in {Q \in SUBSET (Syms \X Syms) : Cardinality(Q) <= MaxPairs}}}

CloseVals == {0, 1, 2}

Feed(s) == CHOOSE i \in 1..3 : <<"A", "B", "C">>[i] = s

HistoryOf(s, closes) ==
    [i \in 1..Len(closes) |-> [date |-> DateStr(i, Feed(s)), close |-> Num(closes[i])]]

CloseSeqs == UNION {[1..n -> CloseVals] : n \in 0..MaxHist}

\* the histories of the documented example: A = [10, 11, 12], B = [20, 18, 22]
ExampleHistories ==
    [s \in {"A", "B"} |->
        HistoryOf(s, IF s = "A" THEN <<10, 11, 12>> ELSE <<20, 18, 22>>)]

ExampleWeights == [s \in {"A", "B"} |-> Fin(1, 2)]

HistoryMaps ==
    {Absent, Present(ExampleHistories)} \cup
    {Present([s \in DOMAIN c |-> HistoryOf(s, c[s])]) :
        c \in UNION {[D -> CloseSeqs] : D \in SUBSET HistSyms}}

WeightVals == {Fin(1, 2), Num(1)}

WeightMaps ==
    {Absent} \cup {Present(w) : w \in UNION {[D -> WeightVals] : D \in SUBSET HistSyms}}

ChartPoint(i, a, b, p) ==
    [key \in {"date", "A", "B", "portfolio"} |->
        IF key = "date" THEN DateStr(i, 0)
        ELSE IF key = "A" THEN a ELSE IF key = "B" THEN b ELSE p]

BackendCharts ==
    {Absent, Present(<<>>),
     Present(<<ChartPoint(1, Num(1), Num(1), Num(1))>>),
     Present(<<ChartPoint(1, Num(1), Num(1), Num(1)),
               ChartPoint(2, Fin(3, 2), Fin(1, 2), Fin(5, 4))>>)}

MetricsRec(r, dd) ==
    [total_return |-> Num(r), annualized_return |-> Num(r + 1), volatility |-> Num(3),
     sharpe_ratio |-> Fin(1, 2), max_drawdown |-> dd]

DefaultBody ==
    [correlation_matrix |-> Present(EmptyObj),
     weights |-> Present(ExampleWeights),
     individual_metrics |-> Present([s \in {"A", "B"} |-> MetricsRec(5, Fin(-25, 2))]),
     portfolio_metrics |-> Present(MetricsRec(7, Num(-8))),
     diversification_ratio |-> Fin(6, 5),
     histories |-> Present(ExampleHistories),
     chart_data |-> Absent]

CorrBodies == {[DefaultBody EXCEPT !.correlation_matrix = m] : m \in CorrMatrices}

ChartBodies ==
    {[DefaultBody EXCEPT !.chart_data = c, !.histories = h, !.weights = w] :
        c \in BackendCharts, h \in HistoryMaps, w \in WeightMaps}

CoreBodies ==
    {[DefaultBody EXCEPT !.chart_data = c, !.correlation_matrix = m,
                         !.individual_metrics = im, !.portfolio_metrics = pm,
                         !.diversification_ratio = dr] :
        c \in {Absent, Present(<<ChartPoint(1, Num(1), Num(1), Num(1))>>)},
        m \in {Absent, Present(EmptyObj)},
        im \in {Absent} \cup
               {Present([s \in D |-> MetricsRec(4 + Feed(s), Fin(-25, 2))]) :
                    D \in SUBSET Syms},
        pm \in {Absent, Present(MetricsRec(7, Num(-8))), Present(MetricsRec(2, Num(8)))},
        dr \in {Fin(6, 5), Num(0)}}

ErrorResponses ==
    {[ok |-> FALSE, status |-> st, body |-> b] :
        st \in {404, 500},
        b \in {[parses |-> FALSE, detail |-> ""],
               [parses |-> TRUE, detail |-> ""],
               [parses |-> TRUE, detail |-> "Symbol not found"]}}

OkResponse(data) == [ok |-> TRUE, status |-> 200, body |-> [parses |-> TRUE, data |-> data]]

UnparseableOk == [ok |-> TRUE, status |-> 200, body |-> [parses |-> FALSE, data |-> DefaultBody]]

NoResponse == [ok |-> FALSE, status |-> 0, body |-> [parses |-> FALSE, detail |-> ""]]

----------------------------------------------------------------------------
\* The invocation

InitWith(symbolSets, weightings, rebalances) ==
    /\ pc = "idle"
    /\ symbols \in symbolSets
    /\ weighting \in weightings
    /\ rebalance \in rebalances
    /\ response = NoResponse
    /\ result = Pending
    /\ requests = 0
    /\ fallbackRuns = 0

\* analyzePortfolio is called: the request is issued
Call ==
    /\ pc = "idle"
    /\ pc' = "fetching"
    /\ requests' = requests + 1
    /\ UNCHANGED <<symbols, weighting, rebalance, response, result, fallbackRuns>>
    /\ UNCHANGED <<assetVars, page, restVars>>

\* a variant that issues the request once more after the first rejection
FetchRejectsAndRetries ==
    /\ pc = "fetching"
    /\ IF requests < Len(earlier) + 2
       THEN pc' = "fetching" /\ requests' = requests + 1 /\ result' = result
       ELSE /\ pc' = "done" /\ requests' = requests
            /\ result' = Rejected("TypeError", Msg("Failed to fetch", 0), 0)
    /\ UNCHANGED <<symbols, weighting, rebalance, response, fallbackRuns>>
    /\ UNCHANGED <<assetVars, page, restVars>>

\* fetch rejects: the backend could not be reached
FetchRejects ==
    /\ pc = "fetching"
    /\ pc' = "done"
    /\ result' = Rejected("TypeError", Msg("Failed to fetch", 0), 0)
    /\ UNCHANGED <<symbols, weighting, rebalance, response, requests, fallbackRuns>>
    /\ UNCHANGED <<assetVars, page, restVars>>

\* fetch resolves with resp: handleResponse and the rest of the function run
Receive(resp) ==
    /\ pc' = "done"
    /\ response' = resp
    /\ result' = Settle(symbols, weighting, rebalance, resp)
    /\ fallbackRuns' = fallbackRuns + result'.fallbackRuns
    /\ UNCHANGED <<symbols, weighting, rebalance, requests>>
    /\ UNCHANGED <<assetVars, page, restVars>>

\* the backend answers with a status that is not ok
RespondError ==
    /\ pc = "fetching"
    /\ \E resp \in ErrorResponses : Receive(resp)

\* the backend answers 200 with a body that is not JSON
RespondUnparseable ==
    /\ pc = "fetching"
    /\ Receive(UnparseableOk)

\* the backend answers 200 with one of the bodies
RespondOk(bodies) ==
    /\ pc = "fetching"
    /\ \E data \in bodies : Receive(OkResponse(data))

RespondCore == RespondOk(CoreBodies)

RespondCorr == RespondOk(CorrBodies)

RespondChart == RespondOk(ChartBodies)

\* the elements of an array of symbols
SymbolsInChart(assets) == {assets[i] : i \in 1..Len(assets)}

\* no single-asset invocation is made
NoAssetCall == [op |-> "none", symbol |-> "", period |-> "", strategy |-> "",
                lookback_period |-> 0]

NoRequest == [path |-> "", symbol |-> "", params |-> <<>>]

NoAsset ==
    /\ assetPc = "idle"
    /\ assetCall = NoAssetCall
    /\ assetRequest = NoRequest
    /\ assetResponse = NoResponse
    /\ assetResult = Pending

\* the Portfolio page has not rendered
NotRendered == [rendered |-> FALSE]

NoPage == page = NotRendered

\* no invocation was made before, and the clock is at its origin
NoRest ==
    /\ earlier = <<>>
    /\ now = 0
    /\ tradeHistory = [mounted |-> FALSE]
    /\ paperTrading = [mounted |-> FALSE]

Init ==
    /\ InitWith(SymbolSets, {"equal_weight", "max_sharpe"}, {"monthly", "daily"})
    /\ NoAsset /\ NoPage /\ NoRest

Next == Call \/ FetchRejects \/ RespondError \/ RespondUnparseable \/ RespondCore

Spec == Init /\ [][Next]_vars

\* the correlation inputs
InitCorr == InitWith(SymbolSets, {"equal_weight"}, {"monthly"}) /\ NoAsset /\ NoPage /\ NoRest

NextCorr == Call \/ FetchRejects \/ RespondError \/ RespondUnparseable \/ RespondCorr

SpecCorr == InitCorr /\ [][NextCorr]_vars

\* the chart inputs
InitChart == InitWith(ChartSymbolSets, {"equal_weight"}, {"monthly"}) /\ NoAsset /\ NoPage /\ NoRest

NextChart == Call \/ FetchRejects \/ RespondError \/ RespondUnparseable \/ RespondChart

SpecChart == InitChart /\ [][NextChart]_vars

----------------------------------------------------------------------------
\* Repeated invocations of analyzePortfolio with the same arguments

\* most invocations kept in earlier
MaxEarlier == 1

\* last tick of the clock
MaxClock == 2

\* the caller invokes the function again once the promise has settled; the
\* response and the settlement of the invocation that ended are kept
InvokeAgain ==
    /\ pc = "done"
    /\ Len(earlier) < MaxEarlier
    /\ earlier' = Append(earlier, [at |-> now, response |-> response, result |-> result])
    /\ pc' = "idle"
    /\ response' = NoResponse
    /\ result' = Pending
    /\ UNCHANGED <<symbols, weighting, rebalance, requests, fallbackRuns, now>>
    /\ UNCHANGED <<assetVars, page, uiVars>>

\* time passes
Tick ==
    /\ now < MaxClock
    /\ now' = now + 1
    /\ UNCHANGED <<pc, symbols, weighting, rebalance, response, result, requests,
                   fallbackRuns, assetVars, page, earlier, uiVars>>

AgainBodies ==
    {[DefaultBody EXCEPT !.chart_data = c, !.portfolio_metrics = pm] :
        c \in {Absent, Present(<<ChartPoint(1, Num(1), Num(1), Num(1))>>)},
        pm \in {Absent, Present(MetricsRec(7, Num(-8)))}}

RespondAgain == RespondOk(AgainBodies)

InitAgain ==
    /\ InitWith({<<"A", "B">>, <<"B", "A">>}, {"equal_weight"}, {"monthly", "daily"})
    /\ NoAsset /\ NoPage /\ NoRest

NextAgain ==
    Call \/ FetchRejects \/ RespondError \/ RespondUnparseable \/ RespondAgain
        \/ InvokeAgain \/ Tick

SpecAgain == InitAgain /\ [][NextAgain]_vars

----------------------------------------------------------------------------
\* The single-asset paths: getAssetMetrics and runStrategy

\* const days = period === '1y' ? 365 : period === '6mo' ? 180 : 730
DaysOf(period) == IF period = "1y" THEN 365 ELSE IF period = "6mo" THEN 180 ELSE 730

\* the request of getAssetMetrics
MetricsRequest(call) ==
    [path |-> "/api/calculate/metrics", symbol |-> call.symbol,
     params |-> <<<<"days", DaysOf(call.period)>>>>]

\* the request of runStrategy: strategy and period always, an option only
\* when it is truthy
StrategyRequest(call) ==
    [path |-> "/api/asset/strategy", symbol |-> call.symbol,
     params |-> <<<<"strategy", call.strategy>>, <<"period", call.period>>>>
                \o (IF call.lookback_period # 0
                    THEN <<<<"lookback_period", call.lookback_period>>>>
                    ELSE <<>>)]

\* the object getAssetMetrics returns for the decoded body data
GetAssetMetrics(call, data) ==
    Fulfilled([symbol |-> call.symbol,
               period |-> call.period,
               metrics |-> [total_return |-> JsMul(data.total_return, Num(100)),
                            annualized_return |-> JsMul(data.total_return, Num(100)),
                            volatility |-> JsMul(data.volatility, Num(100)),
                            sharpe_ratio |-> data.sharpe_ratio,
                            max_drawdown |-> JsMul(data.max_drawdown, Num(100))]], 0)

\* the object runStrategy returns for the decoded body data; reading
\* data.metrics.total_return throws a TypeError when metrics is missing
RunStrategy(call, data) ==
    IF ~data.metrics.present THEN Rejected("TypeError", Msg("metrics", 0), 0)
    ELSE LET m == data.metrics.v
         IN  Fulfilled([symbol |-> data.symbol,
                        strategy |-> data.strategy,
                        metrics |-> [total_return |-> m.total_return,
                                     annualized_return |-> m.annualized_return,
                                     volatility |-> m.volatility,
                                     sharpe_ratio |-> m.sharpe_ratio,
                                     max_drawdown |-> JsAbs(m.max_drawdown),
                                     win_rate |-> m.win_rate,
                                     num_trades |-> m.num_trades],
                        chart_data |-> data.chart_data], 0)

\* handleResponse followed by the rest of the method called
SettleAsset(call, resp) ==
    IF ~resp.ok THEN HandleErrorResponse(resp)
    ELSE IF ~resp.body.parses THEN Rejected("SyntaxError", Msg("Unexpected token", 0), 0)
    ELSE IF call.op = "getAssetMetrics" THEN GetAssetMetrics(call, resp.body.data)
    ELSE RunStrategy(call, resp.body.data)

\* the max_drawdown values the backend sends
DrawdownVals == {Fin(-25, 2), Fin(25, 2), Fin(-1, 8), Num(0), Undefined}

\* bodies of /calculate/metrics
MetricsBodies ==
    {[sharpe_ratio |-> Fin(3, 2), volatility |-> Fin(1, 5),
      max_drawdown |-> dd, total_return |-> tr] :
        dd \in DrawdownVals, tr \in {Fin(3, 10), Undefined}}

\* bodies of /asset/{symbol}/strategy
StrategyBodies ==
    {[symbol |-> s, strategy |-> "momentum", metrics |-> m,
      chart_data |-> Present(<<[date |-> DateStr(1, 1), price |-> Num(10),
                                strategy |-> Num(11)]>>)] :
        s \in {"A", "B"},
        m \in {Absent} \cup
              {Present([total_return |-> Num(5), annualized_return |-> Num(6),
                        volatility |-> Num(20), sharpe_ratio |-> Fin(3, 2),
                        max_drawdown |-> dd, win_rate |-> Fin(3, 5),
                        num_trades |-> Num(12)]) : dd \in DrawdownVals}}

AssetBodies(call) ==
    IF call.op = "getAssetMetrics" THEN MetricsBodies ELSE StrategyBodies

AssetCalls ==
    {[op |-> "getAssetMetrics", symbol |-> s, period |-> p, strategy |-> "",
      lookback_period |-> 0] : s \in {"A", "B"}, p \in {"1y", "6mo", "2y"}}
    \cup
    {[op |-> "runStrategy", symbol |-> s, period |-> "1y", strategy |-> "momentum",
      lookback_period |-> l] : s \in {"A", "B"}, l \in {0, 20}}

\* the method is called: the request is issued
AssetCall ==
    /\ assetPc = "idle"
    /\ assetPc' = "fetching"
    /\ assetRequest' = IF assetCall.op = "getAssetMetrics"
                       THEN MetricsRequest(assetCall) ELSE StrategyRequest(assetCall)
    /\ UNCHANGED <<assetCall, assetResponse, assetResult>>
    /\ UNCHANGED <<pc, symbols, weighting, rebalance, response, result, requests,
                   fallbackRuns, page, restVars>>

\* fetch rejects
AssetFetchRejects ==
    /\ assetPc = "fetching"
    /\ assetPc' = "done"
    /\ assetResult' = Rejected("TypeError", Msg("Failed to fetch", 0), 0)
    /\ UNCHANGED <<assetCall, assetRequest, assetResponse>>
    /\ UNCHANGED <<pc, symbols, weighting, rebalance, response, result, requests,
                   fallbackRuns, page, restVars>>

\* fetch resolves with resp: handleResponse and the rest of the method run
AssetReceive(resp) ==
    /\ assetPc' = "done"
    /\ assetResponse' = resp
    /\ assetResult' = SettleAsset(assetCall, resp)
    /\ UNCHANGED <<assetCall, assetRequest>>
    /\ UNCHANGED <<pc, symbols, weighting, rebalance, response, result, requests,
                   fallbackRuns, page, restVars>>

AssetRespondError ==
    /\ assetPc = "fetching"
    /\ \E resp \in ErrorResponses : AssetReceive(resp)

AssetRespondUnparseable ==
    /\ assetPc = "fetching"
    /\ AssetReceive([ok |-> TRUE, status |-> 200, body |-> [parses |-> FALSE]])

AssetRespondOk ==
    /\ assetPc = "fetching"
    /\ \E data \in AssetBodies(assetCall) : AssetReceive(OkResponse(data))

InitAsset ==
    /\ InitWith({<<"A", "B">>}, {"equal_weight"}, {"monthly"})
    /\ NoPage /\ NoRest
    /\ assetPc = "idle"
    /\ assetCall \in AssetCalls
    /\ assetRequest = NoRequest
    /\ assetResponse = NoResponse
    /\ assetResult = Pending

NextAsset ==
    AssetCall \/ AssetFetchRejects \/ AssetRespondError \/ AssetRespondUnparseable
        \/ AssetRespondOk

SpecAsset == InitAsset /\ [][NextAsset]_vars

----------------------------------------------------------------------------
\* The Portfolio page: the error alert, PortfolioChart and CorrelationMatrix.
\* The query behind usePortfolioAnalysis is the invocation above (a failed
\* invocation stands for the last attempt of the query); the metric cards and
\* the per-asset table of the page are not part of the displayed state.

\* number of points of the generated chart: for (let i = 0; i < 252; i++)
SyntheticDays == 252

\* the values Math.random() returns
RandomDraws == {Num(0), Fin(3, 4)}

\* Number(x.toFixed(2)): the nearest multiple of 1/100, the larger one on a tie
ToFixed2(x) ==
    LET a == ToNumber(x)
    IN  IF a.k # "fin" THEN a
        ELSE Fin((200 * a.n + a.d) \div (2 * a.d), 100)

IndexOf(assets, a) == CHOOSE i \in 1..Len(assets) : assets[i] = a

\* one point of a backend series as PortfolioChart formats it
FormattedPoint(assets, point) ==
    [key \in DOMAIN point \cap ({"date", "portfolio"} \cup SymbolsInChart(assets)) |->
        IF key = "date" THEN point[key]
        ELSE ToFixed2(JsMul(point[key], Num(100)))]

\* assetPrices[asset] after the first day of the generated walk
FirstDayPrice(r) ==
    LET change == JsMul(JsAdd(r, Fin(-12, 25)), Num(2))
    IN  JsMul(Num(100), JsAdd(Num(1), JsDiv(change, Num(100))))

RECURSIVE SumPrices(_, _, _)
SumPrices(assets, draws, i) ==
    IF i > Len(assets) THEN Num(0)
    ELSE JsAdd(FirstDayPrice(draws[assets[i]]), SumPrices(assets, draws, i + 1))

\* the first point of the generated series
FirstGeneratedPoint(assets, draws) ==
    [key \in {"date", "portfolio"} \cup SymbolsInChart(assets) |->
        IF key = "date" THEN DateStr(1, 0)
        ELSE IF key = "portfolio"
             THEN ToFixed2(JsDiv(SumPrices(assets, draws, 1), Num(Len(assets))))
        ELSE ToFixed2(FirstDayPrice(draws[key]))]

\* what PortfolioChart shows: a spinner while loading, the formatted backend
\* series when chartData has points, a generated series otherwise; a series
\* is kept as its origin, its number of points and its first point
PortfolioChart(assets, chartData, isLoading, draws) ==
    IF isLoading THEN [source |-> "spinner", length |-> 0, head |-> <<>>]
    ELSE IF chartData.present /\ Len(chartData.v) > 0
         THEN [source |-> "backend", length |-> Len(chartData.v),
               head |-> <<FormattedPoint(assets, chartData.v[1])>>]
    ELSE [source |-> "generated", length |-> SyntheticDays,
          head |-> <<FirstGeneratedPoint(assets, draws)>>]

\* correlationData.find(d => d.asset1 === a && d.asset2 === b)
FoundEntries(correlationData, a, b) ==
    {i \in 1..Len(correlationData) :
        correlationData[i].asset1 = a /\ correlationData[i].asset2 = b}

\* one cell of the matrix built from the backend entries
CellFromData(correlationData, a, b) ==
    LET found == FoundEntries(correlationData, a, b)
    IN  IF found # {}
        THEN correlationData[CHOOSE i \in found : \A j \in found : i <= j].correlation
        ELSE IF a = b THEN Num(1) ELSE Num(0)

\* one cell of the generated matrix: 1 on the diagonal, a random value for a
\* pair met first, the mirrored value for a pair met second
CellGenerated(assets, draws, a, b) ==
    IF a = b THEN Num(1)
    ELSE LET lo == IF IndexOf(assets, a) < IndexOf(assets, b) THEN <<a, b>> ELSE <<b, a>>
         IN  ToFixed2(JsAdd(JsMul(draws[lo], Fin(4, 5)), Fin(1, 10)))

\* what CorrelationMatrix shows: a spinner while loading, otherwise a table
\* with one cell for every pair of assets, printed with two decimals
CorrelationMatrix(assets, correlationData, isLoading, draws) ==
    IF isLoading THEN [source |-> "spinner", cells |-> <<>>]
    ELSE IF correlationData.present /\ Len(correlationData.v) > 0
         THEN [source |-> "backend",
               cells |-> [q \in SymbolsInChart(assets) \X SymbolsInChart(assets) |->
                            ToFixed2(CellFromData(correlationData.v, q[1], q[2]))]]
    ELSE [source |-> "generated",
          cells |-> [q \in SymbolsInChart(assets) \X SymbolsInChart(assets) |->
                       CellGenerated(assets, draws, q[1], q[2])]]

\* the pairs of assets the generated matrix draws a random value for
DrawnPairs(assets) ==
    {q \in SymbolsInChart(assets) \X SymbolsInChart(assets) :
        IndexOf(assets, q[1]) < IndexOf(assets, q[2])}

\* the Portfolio component for the state of the query
PortfolioPage(assets, at, settled, chartDraws, tableDraws) ==
    LET isLoading == at # "done"
        has == settled.k = "fulfilled"
    IN  [rendered |-> TRUE,
         at |-> at,
         alert |-> settled.k = "rejected",
         chart |-> PortfolioChart(assets,
                      IF has THEN Present(settled.value.chart_data) ELSE Absent,
                      isLoading, chartDraws),
         table |-> CorrelationMatrix(assets,
                      IF has THEN Present(settled.value.correlation_matrix) ELSE Absent,
                      isLoading, tableDraws),
         assets |-> assets,
         chartDraws |-> chartDraws,
         tableDraws |-> tableDraws]

\* the order of the strings drawn by UTF-16 code units, which is the order
\* Array.prototype.sort() puts them in
CodeUnitOrder ==
    <<"A", "AAPL", "AMZN", "B", "BTC-USD", "C", "GOOGL", "JPM", "META", "MSFT",
      "NVDA", "QQQ", "SPY", "TSLA">>

Rank(s) == CHOOSE i \in 1..Len(CodeUnitOrder) : CodeUnitOrder[i] = s

\* sorted with x put after the elements that do not come after it
InsertSorted(sorted, x) ==
    LET n == Cardinality({i \in 1..Len(sorted) : Rank(sorted[i]) <= Rank(x)})
    IN  SubSeq(sorted, 1, n) \o <<x>> \o SubSeq(sorted, n + 1, Len(sorted))

RECURSIVE SortFirst(_, _)
SortFirst(list, n) ==
    IF n = 0 THEN <<>> ELSE InsertSorted(SortFirst(list, n - 1), list[n])

\* symbols.sort(): the array itself, in code-unit order
Sort(list) == SortFirst(list, Len(list))

\* the random values a render draws: none while the spinners are shown (what
\* useMemo computes then is displayed only once the query has settled, and is
\* drawn here when it is first displayed)
ChartDraws(assets, at) ==
    IF at = "done" THEN [SymbolsInChart(assets) -> RandomDraws] ELSE {<<>>}

TableDraws(assets, at) ==
    IF at = "done" THEN [DrawnPairs(assets) -> RandomDraws] ELSE {<<>>}

\* the Portfolio component renders for the current state of the query and of
\* the selection: usePortfolioAnalysis builds its query key with
\* symbols.sort(), which sorts the array it was given, and the page shows
\* that array
Render ==
    /\ IF page.rendered THEN page.at # pc \/ page.assets # symbols ELSE TRUE
    /\ symbols' = Sort(symbols)
    /\ \E cd \in ChartDraws(symbols', pc), td \in TableDraws(symbols', pc) :
            page' = PortfolioPage(symbols', pc, result, cd, td)
    /\ UNCHANGED <<pc, weighting, rebalance, response, result, requests,
                   fallbackRuns, assetVars, restVars>>

\* most queries the page starts
MaxQueries == 1

\* the query function runs for the array of the last render
QueryFn ==
    /\ page.rendered
    /\ page.assets = symbols
    /\ requests < MaxQueries
    /\ Call

\* the bodies the page is rendered for
PageBodies ==
    {[DefaultBody EXCEPT !.chart_data = c, !.correlation_matrix = m] :
        c \in {Absent, Present(<<ChartPoint(1, Fin(101, 100), Fin(1, 3), Num(1))>>)},
        m \in {Absent, Present(EmptyObj), Present(MatrixOf(<<"A", "B">> :> Fin(1, 3)))}}

RespondPage == RespondOk(PageBodies)

InitPage ==
    /\ InitWith({<<"A", "B">>, <<"B", "A">>, <<"A", "B", "C">>}, {"equal_weight"},
                {"monthly"})
    /\ NoAsset /\ NoPage /\ NoRest

NextPage ==
    QueryFn \/ FetchRejects \/ RespondError \/ RespondUnparseable \/ RespondPage \/ Render

SpecPage == InitPage /\ [][NextPage]_vars

----------------------------------------------------------------------------
\* The asset selection of the Portfolio page

\* useState(["AAPL", "MSFT", "GOOGL"])
InitialAssets == <<"AAPL", "MSFT", "GOOGL">>

\* the assets offered that are drawn: the first eleven of AVAILABLE_ASSETS
OfferedAssets ==
    {"AAPL", "MSFT", "GOOGL", "TSLA", "AMZN", "NVDA", "META", "JPM", "SPY", "QQQ",
     "BTC-USD"}

\* selectedAssets.length < 10
MaxAssets == 10

\* selectedAssets.length > 2
MinAssets == 2

\* selectedAssets.includes(asset)
Includes(list, asset) == \E i \in 1..Len(list) : list[i] = asset

\* selectedAssets.filter(a => a !== asset)
RECURSIVE Without(_, _)
Without(list, asset) ==
    IF list = <<>> THEN <<>>
    ELSE IF Head(list) = asset THEN Without(Tail(list), asset)
    ELSE <<Head(list)>> \o Without(Tail(list), asset)

\* the list is replaced: the query key changes and with it the query
SetSelectedAssets(list) ==
    /\ symbols' = list
    /\ IF list = symbols
       THEN UNCHANGED <<pc, response, result>>
       ELSE pc' = "idle" /\ response' = NoResponse /\ result' = Pending
    /\ UNCHANGED <<weighting, rebalance, requests, fallbackRuns, page, assetVars,
                   restVars>>

\* a variant without the limit on the length
addAssetUnlimited(asset) ==
    /\ page.rendered /\ page.assets = symbols
    /\ IF ~Includes(symbols, asset)
       THEN SetSelectedAssets(Append(symbols, asset))
       ELSE UNCHANGED vars

\* addAsset of the rendered page
addAsset(asset) ==
    /\ page.rendered /\ page.assets = symbols
    /\ IF ~Includes(symbols, asset) /\ Len(symbols) < MaxAssets
       THEN SetSelectedAssets(Append(symbols, asset))
       ELSE UNCHANGED vars

\* removeAsset of the rendered page
removeAsset(asset) ==
    /\ page.rendered /\ page.assets = symbols
    /\ IF Len(symbols) > MinAssets
       THEN SetSelectedAssets(Without(symbols, asset))
       ELSE UNCHANGED vars

AddAsset == \E asset \in OfferedAssets : addAsset(asset)

RemoveAsset == \E asset \in OfferedAssets : removeAsset(asset)

InitSelect ==
    /\ InitWith({InitialAssets}, {"equal_weight"}, {"monthly"})
    /\ NoAsset /\ NoPage /\ NoRest

NextSelect == AddAsset \/ RemoveAsset \/ Render \/ QueryFn

SpecSelect == InitSelect /\ [][NextSelect]_vars

----------------------------------------------------------------------------
\* The TradeHistory component

\* most getPaperTrades requests the component issues
MaxLoads == 3

UserIds == {"demo_user", "other_user"}

\* the values of the limit select that are drawn
Limits == {20, 50}

\* what the backend holds for a user once `executed` trades were executed
Ledger(user, executed) ==
    (IF user = "demo_user"
     THEN <<[id |-> 1, symbol |-> "AAPL"], [id |-> 2, symbol |-> "MSFT"]>>
     ELSE <<[id |-> 3, symbol |-> "MSFT"]>>)
    \o [i \in 1..executed |-> [id |-> 10 + i, symbol |-> "AAPL"]]

\* the trades of list for symbol ("" stands for undefined: every symbol)
RECURSIVE OfSymbol(_, _)
OfSymbol(list, symbol) ==
    IF list = <<>> THEN <<>>
    ELSE IF symbol = "" \/ Head(list).symbol = symbol
         THEN <<Head(list)>> \o OfSymbol(Tail(list), symbol)
    ELSE OfSymbol(Tail(list), symbol)

\* data.trades of the successful response to a request
TradesFor(request) ==
    LET all == OfSymbol(Ledger(request.userId, request.refreshTrigger), request.symbol)
    IN  SubSeq(all, 1, IF Len(all) < request.limit THEN Len(all) ELSE request.limit)

\* the component as it is mounted: the useState initial values, and the
\* effect of the first render still to run
MountedTradeHistory(userId, refreshTrigger) ==
    [mounted |-> TRUE,
     userId |-> userId,
     refreshTrigger |-> refreshTrigger,
     trades |-> <<>>,
     isLoading |-> TRUE,
     filterSymbol |-> "all",
     limit |-> 20,
     effectPending |-> TRUE,
     log |-> <<>>,
     errorToasts |-> 0]

\* the requests that have not completed
InFlight == {i \in 1..Len(tradeHistory.log) : tradeHistory.log[i].outcome = "pending"}

\* loadTrades up to its await: setIsLoading(true) and the request
LoadTradesStarted(th) ==
    [th EXCEPT !.isLoading = TRUE,
               !.log = Append(th.log,
                          [request |-> [userId |-> th.userId,
                                        limit |-> th.limit,
                                        symbol |-> IF th.filterSymbol = "all" THEN ""
                                                   ELSE th.filterSymbol,
                                        refreshTrigger |-> th.refreshTrigger],
                           outcome |-> "pending"])]

\* the effect on [userId, filterSymbol, limit, refreshTrigger] runs
LoadTradesEffect ==
    /\ tradeHistory.mounted /\ tradeHistory.effectPending
    /\ tradeHistory' = [LoadTradesStarted(tradeHistory) EXCEPT !.effectPending = FALSE]
    /\ UNCHANGED <<pc, symbols, weighting, rebalance, response, result, requests,
                   fallbackRuns, assetVars, page, earlier, now, paperTrading>>

\* the user or the parent is about to cause one more load
MayLoadAgain ==
    /\ tradeHistory.mounted /\ ~tradeHistory.effectPending
    /\ Len(tradeHistory.log) < MaxLoads

\* a dependency of the effect gets a new value
ChangeDependency(changed) ==
    /\ MayLoadAgain
    /\ changed # tradeHistory
    /\ tradeHistory' = [changed EXCEPT !.effectPending = TRUE]
    /\ UNCHANGED <<pc, symbols, weighting, rebalance, response, result, requests,
                   fallbackRuns, assetVars, page, earlier, now, paperTrading>>

\* the parent passes another userId
ChangeUserId ==
    \E u \in UserIds : ChangeDependency([tradeHistory EXCEPT !.userId = u])

\* the parent passes the next refreshTrigger
ChangeRefreshTrigger ==
    ChangeDependency([tradeHistory EXCEPT !.refreshTrigger = @ + 1])

\* the symbol select: "all" or a symbol of the trades shown
ChangeFilterSymbol ==
    \E s \in {"all"} \cup {tradeHistory.trades[i].symbol :
                                i \in 1..Len(tradeHistory.trades)} :
        ChangeDependency([tradeHistory EXCEPT !.filterSymbol = s])

\* the limit select
ChangeLimit ==
    \E l \in Limits : ChangeDependency([tradeHistory EXCEPT !.limit = l])

\* the refresh button, disabled while isLoading
ClickRefresh ==
    /\ MayLoadAgain
    /\ ~tradeHistory.isLoading
    /\ tradeHistory' = LoadTradesStarted(tradeHistory)
    /\ UNCHANGED <<pc, symbols, weighting, rebalance, response, result, requests,
                   fallbackRuns, assetVars, page, earlier, now, paperTrading>>

\* a variant of the failure path that empties the list
LoadTradesFailsAndClears ==
    /\ tradeHistory.mounted
    /\ \E i \in InFlight :
          tradeHistory' = [tradeHistory EXCEPT !.log[i].outcome = "failed",
                                               !.errorToasts = @ + 1,
                                               !.trades = <<>>,
                                               !.isLoading = FALSE]
    /\ UNCHANGED <<pc, symbols, weighting, rebalance, response, result, requests,
                   fallbackRuns, assetVars, page, earlier, now, paperTrading>>

\* a request completes with a response: setTrades(data.trades), then finally
LoadTradesSucceeds ==
    /\ tradeHistory.mounted
    /\ \E i \in InFlight :
          tradeHistory' = [tradeHistory EXCEPT !.log[i].outcome = "ok",
                                               !.trades = TradesFor(tradeHistory.log[i].request),
                                               !.isLoading = FALSE]
    /\ UNCHANGED <<pc, symbols, weighting, rebalance, response, result, requests,
                   fallbackRuns, assetVars, page, earlier, now, paperTrading>>

\* a request fails: the catch block shows a toast, then finally
LoadTradesFails ==
    /\ tradeHistory.mounted
    /\ \E i \in InFlight :
          tradeHistory' = [tradeHistory EXCEPT !.log[i].outcome = "failed",
                                               !.errorToasts = @ + 1,
                                               !.isLoading = FALSE]
    /\ UNCHANGED <<pc, symbols, weighting, rebalance, response, result, requests,
                   fallbackRuns, assetVars, page, earlier, now, paperTrading>>

InitTrades ==
    /\ InitWith({<<"A", "B">>}, {"equal_weight"}, {"monthly"})
    /\ NoAsset /\ NoPage
    /\ earlier = <<>>
    /\ now = 0
    /\ tradeHistory = MountedTradeHistory("demo_user", 0)
    /\ paperTrading = [mounted |-> FALSE]

NextTrades ==
    LoadTradesEffect \/ ChangeUserId \/ ChangeRefreshTrigger \/ ChangeFilterSymbol
        \/ ChangeLimit \/ ClickRefresh \/ LoadTradesSucceeds \/ LoadTradesFails

SpecTrades == InitTrades /\ [][NextTrades]_vars

----------------------------------------------------------------------------
\* The PaperTrading page: initializeUser, the trade dialog and executeTrade

\* most clicks on the trade button
MaxTrades == 2

\* the symbols and quantities entered in the dialog ("" is no symbol)
DialogSymbols == {"", "MSFT"}

Quantities == {0, 10}

\* useState<PaperPortfolio | null>(null)
NullPortfolio == [loaded |-> FALSE, trades |-> 0]

\* the portfolio the backend returns once `executed` trades were executed
PortfolioAfter(executed) == [loaded |-> TRUE, trades |-> executed]

\* the page as it is mounted: the useState initial values, and the effect of
\* the first render still to run
MountedPaperTrading ==
    [mounted |-> TRUE,
     portfolio |-> NullPortfolio,
     signals |-> <<>>,
     isLoading |-> TRUE,
     selectedSymbol |-> "AAPL",
     quantity |-> 10,
     isTradeDialogOpen |-> FALSE,
     tradeType |-> "buy",
     refreshTrigger |-> 0,
     initPc |-> "mounted",
     lookup |-> "none",
     creation |-> "none",
     portfolioLoad |-> "none",
     signalsLoad |-> "none",
     calls |-> <<>>,
     trades |-> <<>>,
     lastToast |-> ""]

ApiCall(name, by) == [name |-> name, by |-> by]

\* the trades the backend has executed
Executed(pt) ==
    Cardinality({i \in 1..Len(pt.trades) :
                    pt.trades[i].stage \in {"threw", "reloading", "completed"}})

\* Promise.all([loadPortfolio(), loadSignals()]): both requests are issued
StartLoads(pt) ==
    [pt EXCEPT !.calls = @ \o <<ApiCall("getPaperPortfolio", "initializeUser"),
                                ApiCall("getActiveSignals", "initializeUser")>>,
               !.portfolioLoad = "pending",
               !.signalsLoad = "pending",
               !.initPc = "loading"]

\* the finally block of initializeUser, once both loads have settled
FinishWhenLoaded(pt) ==
    IF pt.portfolioLoad # "pending" /\ pt.signalsLoad # "pending"
    THEN [pt EXCEPT !.isLoading = FALSE, !.initPc = "done"]
    ELSE pt

\* a step of the page: every other variable stays
PaperTradingStep(next) ==
    /\ paperTrading' = next
    /\ UNCHANGED <<pc, symbols, weighting, rebalance, response, result, requests,
                   fallbackRuns, assetVars, page, earlier, now, tradeHistory>>

\* the mount effect: initializeUser up to the lookup
InitializeUser ==
    /\ paperTrading.mounted /\ paperTrading.initPc = "mounted"
    /\ PaperTradingStep([paperTrading EXCEPT
            !.isLoading = TRUE,
            !.calls = Append(@, ApiCall("getPaperTradingUser", "initializeUser")),
            !.lookup = "pending",
            !.initPc = "lookup"])

\* getPaperTradingUser resolves
LookupSucceeds ==
    /\ paperTrading.mounted /\ paperTrading.initPc = "lookup"
    /\ PaperTradingStep(StartLoads([paperTrading EXCEPT !.lookup = "ok"]))

\* getPaperTradingUser rejects: the user is created
LookupFails ==
    /\ paperTrading.mounted /\ paperTrading.initPc = "lookup"
    /\ PaperTradingStep([paperTrading EXCEPT
            !.lookup = "failed",
            !.calls = Append(@, ApiCall("createPaperTradingUser", "initializeUser")),
            !.creation = "pending",
            !.initPc = "creating"])

\* createPaperTradingUser resolves
CreateSucceeds ==
    /\ paperTrading.mounted /\ paperTrading.initPc = "creating"
    /\ PaperTradingStep(StartLoads([paperTrading EXCEPT
            !.creation = "ok",
            !.lastToast = "Paper Trading Account Created!"]))

\* a variant in which a failed creation is passed over
CreateFailsAndLoads ==
    /\ paperTrading.mounted /\ paperTrading.initPc = "creating"
    /\ PaperTradingStep(StartLoads([paperTrading EXCEPT !.creation = "failed"]))

\* createPaperTradingUser rejects: the outer catch and finally
CreateFails ==
    /\ paperTrading.mounted /\ paperTrading.initPc = "creating"
    /\ PaperTradingStep([paperTrading EXCEPT
            !.creation = "failed",
            !.lastToast = "Failed to initialize account",
            !.isLoading = FALSE,
            !.initPc = "done"])

\* loadPortfolio of initializeUser settles; its own catch swallows a failure
PortfolioLoadSettles ==
    /\ paperTrading.mounted /\ paperTrading.portfolioLoad = "pending"
    /\ \/ PaperTradingStep(FinishWhenLoaded([paperTrading EXCEPT
                !.portfolioLoad = "ok",
                !.portfolio = PortfolioAfter(Executed(paperTrading))]))
       \/ PaperTradingStep(FinishWhenLoaded([paperTrading EXCEPT
                !.portfolioLoad = "failed"]))

\* loadSignals of initializeUser settles; its own catch swallows a failure
SignalsLoadSettles ==
    /\ paperTrading.mounted /\ paperTrading.signalsLoad = "pending"
    /\ \/ PaperTradingStep(FinishWhenLoaded([paperTrading EXCEPT
                !.signalsLoad = "ok",
                !.signals = <<"signal">>]))
       \/ PaperTradingStep(FinishWhenLoaded([paperTrading EXCEPT
                !.signalsLoad = "failed"]))

\* the page shows its content, not the spinner
Shown == paperTrading.mounted /\ ~paperTrading.isLoading

\* openTradeDialog(type, symbol)
OpenTradeDialog ==
    /\ Shown
    /\ \E type \in {"buy", "sell"}, symbol \in DialogSymbols :
          PaperTradingStep([paperTrading EXCEPT
              !.tradeType = type,
              !.selectedSymbol = IF symbol # "" THEN symbol ELSE @,
              !.isTradeDialogOpen = TRUE])

\* the dialog is dismissed: onOpenChange(false)
DismissDialog ==
    /\ Shown /\ paperTrading.isTradeDialogOpen
    /\ PaperTradingStep([paperTrading EXCEPT !.isTradeDialogOpen = FALSE])

\* the fields of the dialog
EditDialog ==
    /\ Shown /\ paperTrading.isTradeDialogOpen
    /\ \E symbol \in DialogSymbols, q \in Quantities :
          PaperTradingStep([paperTrading EXCEPT !.selectedSymbol = symbol,
                                                !.quantity = q])

\* executeTrade up to its await: the guard, then the trade call
ExecuteTrade ==
    /\ Shown /\ paperTrading.isTradeDialogOpen
    /\ Len(paperTrading.trades) < MaxTrades
    /\ IF paperTrading.selectedSymbol = "" \/ paperTrading.quantity <= 0
       THEN PaperTradingStep([paperTrading EXCEPT
                !.lastToast = "Please enter valid trade details",
                !.trades = Append(@, [stage |-> "rejected"])])
       ELSE PaperTradingStep([paperTrading EXCEPT
                !.calls = Append(@, ApiCall("executePaperTrade", "executeTrade")),
                !.trades = Append(@, [stage |-> "trading"])])

\* the trades at a stage
AtStage(stage) ==
    {i \in 1..Len(paperTrading.trades) : paperTrading.trades[i].stage = stage}

\* executePaperTrade rejects: the catch block
TradeFails ==
    /\ paperTrading.mounted
    /\ \E i \in AtStage("trading") :
          PaperTradingStep([paperTrading EXCEPT !.trades[i].stage = "failed",
                                                !.lastToast = "Trade failed"])

\* a variant in which a refused trade still refreshes the history
TradeIsRefusedAndRefreshes ==
    /\ paperTrading.mounted
    /\ \E i \in AtStage("trading") :
          PaperTradingStep([paperTrading EXCEPT !.trades[i].stage = "refused",
                                                !.refreshTrigger = @ + 1])

\* executePaperTrade resolves with success false: nothing is done
TradeIsRefused ==
    /\ paperTrading.mounted
    /\ \E i \in AtStage("trading") :
          PaperTradingStep([paperTrading EXCEPT !.trades[i].stage = "refused"])

\* executePaperTrade resolves with success true and no price: the description
\* of the toast reads result.price.toFixed, which throws into the catch block
TradeSucceedsWithoutPrice ==
    /\ paperTrading.mounted
    /\ \E i \in AtStage("trading") :
          PaperTradingStep([paperTrading EXCEPT
              !.trades[i].stage = "threw",
              !.lastToast = "Cannot read properties of undefined"])

\* executePaperTrade resolves with success true: the toast, then loadPortfolio
TradeSucceeds ==
    /\ paperTrading.mounted
    /\ \E i \in AtStage("trading") :
          PaperTradingStep([paperTrading EXCEPT
              !.trades[i].stage = "reloading",
              !.lastToast = "Trade executed",
              !.calls = Append(@, ApiCall("getPaperPortfolio", "executeTrade"))])

\* loadPortfolio of executeTrade settles (its own catch swallows a failure),
\* then setRefreshTrigger(prev => prev + 1) and setIsTradeDialogOpen(false)
ReloadSettles ==
    /\ paperTrading.mounted
    /\ \E i \in AtStage("reloading"), loaded \in BOOLEAN :
          PaperTradingStep([paperTrading EXCEPT
              !.trades[i].stage = "completed",
              !.portfolio = IF loaded THEN PortfolioAfter(Executed(paperTrading)) ELSE @,
              !.refreshTrigger = @ + 1,
              !.isTradeDialogOpen = FALSE])

InitTrading ==
    /\ InitWith({<<"A", "B">>}, {"equal_weight"}, {"monthly"})
    /\ NoAsset /\ NoPage
    /\ earlier = <<>>
    /\ now = 0
    /\ tradeHistory = [mounted |-> FALSE]
    /\ paperTrading = MountedPaperTrading

NextTrading ==
    InitializeUser \/ LookupSucceeds \/ LookupFails \/ CreateSucceeds \/ CreateFails
        \/ PortfolioLoadSettles \/ SignalsLoadSettles
        \/ OpenTradeDialog \/ DismissDialog \/ EditDialog \/ ExecuteTrade
        \/ TradeFails \/ TradeIsRefused \/ TradeSucceedsWithoutPrice
        \/ TradeSucceeds \/ ReloadSettles

SpecTrading == InitTrading /\ [][NextTrading]_vars

----------------------------------------------------------------------------
\* Vocabulary of the properties

\* the invocation received a 200 response whose body decoded
GotBody == pc = "done" /\ response.ok /\ response.body.parses

Data == response.body.data

Returned == pc = "done" /\ result.k = "fulfilled"

SymbolsOf(syms) == {syms[i] : i \in 1..Len(syms)}

\* the successful response carries no chart_data, or an empty one
LacksChart == ~Data.chart_data.present \/ Len(Data.chart_data.v) = 0

\* the history of symbol s, empty when the response has none
HistoryIn(data, s) ==
    IF data.histories.present /\ s \in DOMAIN data.histories.v
    THEN data.histories.v[s] ELSE <<>>

\* a JavaScript number that is neither NaN nor infinite
Finite(x) == x.k = "fin"

RECURSIVE SumOver(_, _, _)
\* the sum of term[s] over the symbols s of S, on top of acc
SumOver(S, term, acc) ==
    IF S = {} THEN acc
    ELSE LET s == CHOOSE x \in S : TRUE
         IN  SumOver(S \ {s}, term, JsAdd(acc, term[s]))

\* the symbols of the list whose history has an element at 0 and at i (from 0)
Charted(syms, data, i) ==
    {s \in SymbolsOf(syms) : Len(HistoryIn(data, s)) >= 1 /\ Len(HistoryIn(data, s)) > i}

----------------------------------------------------------------------------
\* Chart series (checked under SpecChart)

\* C1: a non-empty backend chart_data is returned as it is, in order and
\* content, and the fallback closure is not evaluated, whatever histories and
\* weights hold.
C1_BackendChartIsAuthoritative ==
    (GotBody /\ Data.chart_data.present /\ Len(Data.chart_data.v) >= 1)
        => /\ fallbackRuns = 0
           /\ Returned => result.value.chart_data = Data.chart_data.v

\* a single backend point is returned although the histories would give a
\* fallback series of three points
C1_Witness ==
    /\ Returned /\ GotBody
    /\ Data.chart_data.present /\ Len(Data.chart_data.v) = 1
    /\ Data.histories = Present(ExampleHistories)
    /\ result.value.chart_data = Data.chart_data.v
    /\ fallbackRuns = 0

\* C2: with chart_data omitted or empty the returned series is the fallback
\* series: one point per date of the first symbol's history, carrying that
\* date.
C2_FallbackWhenChartMissingOrEmpty ==
    (GotBody /\ Returned /\ LacksChart)
        => LET first == HistoryIn(Data, symbols[1])
               chart == result.value.chart_data
           IN  /\ Len(chart) = Len(first)
               /\ \A i \in 1..Len(first) : chart[i].date = first[i].date

\* C3: in the fallback series, the value of a symbol with elements at 0 and i
\* is close[i] / close[0], which is 1 at index 0 for a non-zero base, and the
\* portfolio value is the sum of value times weights[s] over those symbols;
\* the documented example gives (1, 1, 1), (1.1, 0.9, 1), (1.2, 1.1, 1.15).
C3_FallbackValues ==
    (GotBody /\ Returned /\ ~Data.chart_data.present)
        => LET chart == result.value.chart_data
               weights == result.value.weights
           IN  /\ \A i \in 1..Len(chart) :
                    /\ \A s \in Charted(symbols, Data, i - 1) :
                          LET h == HistoryIn(Data, s)
                          IN  /\ s \in DOMAIN chart[i]
                              /\ chart[i][s] = JsDiv(h[i].close, h[1].close)
                              /\ (i = 1 /\ ~IsZero(h[1].close)) => chart[i][s] = Num(1)
                    /\ chart[i].portfolio =
                          SumOver(Charted(symbols, Data, i - 1),
                                  [s \in Syms |->
                                     IF s \in DOMAIN chart[i]
                                     THEN JsMul(chart[i][s], Get(weights, s))
                                     ELSE Num(0)],
                                  Num(0))
               /\ (/\ symbols = <<"A", "B">>
                   /\ Data.histories = Present(ExampleHistories)
                   /\ Data.weights = Present(ExampleWeights))
                    => /\ Len(chart) = 3
                       /\ <<chart[1].A, chart[1].B, chart[1].portfolio>>
                            = <<Num(1), Num(1), Num(1)>>
                       /\ <<chart[2].A, chart[2].B, chart[2].portfolio>>
                            = <<Fin(11, 10), Fin(9, 10), Num(1)>>
                       /\ <<chart[3].A, chart[3].B, chart[3].portfolio>>
                            = <<Fin(12, 10), Fin(11, 10), Fin(115, 100)>>

\* the documented example went through the fallback
C3_Witness ==
    /\ GotBody /\ Returned /\ ~Data.chart_data.present
    /\ fallbackRuns = 1
    /\ symbols = <<"A", "B">>
    /\ Data.histories = Present(ExampleHistories)
    /\ Data.weights = Present(ExampleWeights)
    /\ Len(result.value.chart_data) = 3
    /\ result.value.chart_data[3].portfolio = Fin(23, 20)

\* C4: in the fallback series a symbol with a history and no weight adds 0:
\* with non-zero base prices every portfolio value is the finite sum of value
\* times weight over the charted symbols that have a weight.
C4_MissingWeightCountsAsZero ==
    (/\ GotBody /\ Returned /\ ~Data.chart_data.present
     /\ \A s \in SymbolsOf(symbols) :
            HistoryIn(Data, s) # <<>> => ~IsZero(HistoryIn(Data, s)[1].close))
        => LET chart == result.value.chart_data
               weights == result.value.weights
           IN  \A i \in 1..Len(chart) :
                  /\ Finite(chart[i].portfolio)
                  /\ chart[i].portfolio =
                        SumOver(Charted(symbols, Data, i - 1) \cap DOMAIN weights,
                                [s \in Syms |->
                                   IF s \in DOMAIN chart[i] /\ s \in DOMAIN weights
                                   THEN JsMul(chart[i][s], weights[s])
                                   ELSE Num(0)],
                                Num(0))

\* C5: the fallback fails with a DataError when it normalizes the history of
\* a listed symbol that starts with a zero close, and no returned point holds
\* a NaN or infinite per-symbol value.
C5_ZeroBaseRaisesDataError ==
    (GotBody /\ ~Data.chart_data.present /\ Data.histories.present)
        => /\ (/\ HistoryIn(Data, symbols[1]) # <<>>
               /\ \E s \in Charted(symbols, Data, 0) : IsZero(HistoryIn(Data, s)[1].close))
                => (result.k = "rejected" /\ result.name = "DataError")
           /\ Returned =>
                \A i \in 1..Len(result.value.chart_data) :
                    \A s \in DOMAIN result.value.chart_data[i] \ {"date", "portfolio"} :
                        Finite(result.value.chart_data[i][s])

----------------------------------------------------------------------------
\* Correlation entries (checked under SpecCorr)

\* the backend supplies a value under correlation_matrix[a][b]
Supplied(data, a, b) ==
    /\ data.correlation_matrix.present
    /\ a \in DOMAIN data.correlation_matrix.v
    /\ b \in DOMAIN data.correlation_matrix.v[a]

\* the correlations of the returned entries that name the pair (a, b)
ReturnedFor(a, b) ==
    {result.value.correlation_matrix[i].correlation :
        i \in {j \in 1..Len(result.value.correlation_matrix) :
                 /\ result.value.correlation_matrix[j].asset1 = a
                 /\ result.value.correlation_matrix[j].asset2 = b}}

\* C6: the returned entry (s, s) has correlation 1 for every listed symbol,
\* whatever the backend supplies for that pair.
C6_DiagonalIsOne ==
    Returned => \A s \in SymbolsOf(symbols) : ReturnedFor(s, s) = {Num(1)}

\* C7: for distinct listed symbols a, b the returned correlation is the
\* backend's value under [a][b] when that key exists, also outside [-1, 1],
\* and 0 otherwise, whatever is supplied under [b][a].
C7_OffDiagonalPassThrough ==
    (GotBody /\ Returned)
        => \A a \in SymbolsOf(symbols) : \A b \in SymbolsOf(symbols) \ {a} :
              ReturnedFor(a, b) =
                 {IF Supplied(Data, a, b) THEN Data.correlation_matrix.v[a][b] ELSE Num(0)}

\* a value outside [-1, 1] supplied for (B, A) only: (B, A) carries it and
\* (A, B) is 0
C7_Witness ==
    /\ GotBody /\ Returned
    /\ {"A", "B"} \subseteq SymbolsOf(symbols)
    /\ Supplied(Data, "B", "A") /\ ~Supplied(Data, "A", "B")
    /\ Data.correlation_matrix.v["B"]["A"] = Fin(-3, 2)
    /\ ReturnedFor("B", "A") = {Fin(-3, 2)}
    /\ ReturnedFor("A", "B") = {Num(0)}

\* C8: for N listed symbols there are exactly N * N entries, entry i * N + j
\* (from 0) naming (symbols[i], symbols[j]) with a finite number as
\* correlation.
C8_RowMajorComplete ==
    (GotBody /\ Returned)
        => LET N == Len(symbols)
               entries == result.value.correlation_matrix
           IN  /\ Len(entries) = N * N
               /\ \A i \in 0..(N - 1) : \A j \in 0..(N - 1) :
                     /\ entries[i * N + j + 1].asset1 = symbols[i + 1]
                     /\ entries[i * N + j + 1].asset2 = symbols[j + 1]
                     /\ Finite(entries[i * N + j + 1].correlation)

\* three symbols and a partial mapping give nine entries
C8_Witness ==
    /\ GotBody /\ Returned
    /\ Len(symbols) = 3
    /\ Data.correlation_matrix.present
    /\ DOMAIN Data.correlation_matrix.v = {symbols[3]}
    /\ Len(result.value.correlation_matrix) = 9
    /\ result.value.correlation_matrix[8].asset1 = symbols[3]
    /\ result.value.correlation_matrix[8].asset2 = symbols[2]

\* C9: when the backend supplies equal values under [a][b] and [b][a], the
\* returned entries for (a, b) and (b, a) carry equal correlations.
C9_SymmetricInputStaysSymmetric ==
    (GotBody /\ Returned)
        => \A a \in SymbolsOf(symbols) : \A b \in SymbolsOf(symbols) :
              (/\ Supplied(Data, a, b) /\ Supplied(Data, b, a)
               /\ Data.correlation_matrix.v[a][b] = Data.correlation_matrix.v[b][a])
                 => ReturnedFor(a, b) = ReturnedFor(b, a)

\* both directions of a pair of distinct symbols supplied with the same
\* non-zero value, and returned
C9_Witness ==
    /\ GotBody /\ Returned
    /\ \E a \in SymbolsOf(symbols) : \E b \in SymbolsOf(symbols) \ {a} :
          /\ Supplied(Data, a, b) /\ Supplied(Data, b, a)
          /\ Data.correlation_matrix.v[a][b] = Fin(1, 2)
          /\ Data.correlation_matrix.v[b][a] = Fin(1, 2)
          /\ ReturnedFor(a, b) = {Fin(1, 2)}
          /\ ReturnedFor(b, a) = {Fin(1, 2)}

\* C10: a response without correlation_matrix, or without a row for a listed
\* symbol, raises no error, and the pairs of that row get 1 on the diagonal
\* and 0 elsewhere.
C10_MissingMatrixOrRowDefaults ==
    (/\ GotBody
     /\ \/ ~Data.correlation_matrix.present
        \/ \E s \in SymbolsOf(symbols) : s \notin DOMAIN Data.correlation_matrix.v)
        => /\ Returned
           /\ \A a \in SymbolsOf(symbols) : \A b \in SymbolsOf(symbols) :
                 ~(Data.correlation_matrix.present /\ a \in DOMAIN Data.correlation_matrix.v)
                    => ReturnedFor(a, b) = {IF a = b THEN Num(1) ELSE Num(0)}

----------------------------------------------------------------------------
\* Fallback date axis (checked under SpecChart)

\* C11: in the fallback series a symbol whose history ends before the first
\* symbol's has no value in the points past its own end and adds nothing to
\* their portfolio value, the symbols that reach the date are in the point
\* and add value times weight, and the invocation returns.
C11_ShortHistoryContributesNothing ==
    (GotBody /\ ~Data.chart_data.present /\ Data.histories.present)
        => /\ Returned
           /\ LET chart == result.value.chart_data
                  weights == result.value.weights
              IN  \A i \in 1..Len(chart) :
                     /\ \A s \in SymbolsOf(symbols) :
                           Len(HistoryIn(Data, s)) < i => s \notin DOMAIN chart[i]
                     /\ \A s \in SymbolsOf(symbols) :
                           Len(HistoryIn(Data, s)) >= i => s \in DOMAIN chart[i]
                     /\ chart[i].portfolio =
                           SumOver({s \in SymbolsOf(symbols) : Len(HistoryIn(Data, s)) >= i},
                                   [s \in Syms |->
                                      IF Len(HistoryIn(Data, s)) >= i
                                      THEN JsMul(JsDiv(HistoryIn(Data, s)[i].close,
                                                       HistoryIn(Data, s)[1].close),
                                                 Get(weights, s))
                                      ELSE Num(0)],
                                   Num(0))

\* the second symbol's history is one element long, the first one's two: the
\* second point holds the first symbol alone and its portfolio value is that
\* symbol's share
C11_Witness ==
    /\ GotBody /\ Returned /\ ~Data.chart_data.present
    /\ symbols = <<"A", "B">>
    /\ Len(HistoryIn(Data, "A")) = 2 /\ Len(HistoryIn(Data, "B")) = 1
    /\ HistoryIn(Data, "A")[1].close = Num(1) /\ HistoryIn(Data, "A")[2].close = Num(2)
    /\ Data.weights = Present(ExampleWeights)
    /\ Len(result.value.chart_data) = 2
    /\ DOMAIN result.value.chart_data[2] = {"date", "A", "portfolio"}
    /\ result.value.chart_data[2].portfolio = Num(1)

\* C12: the fallback series has one point per element of the first symbol's
\* history, in order and with its dates; no point holds a value of a symbol
\* beyond what that date index reaches, and without a history of the first
\* symbol the series is empty.
C12_DateAxisOfFirstSymbol ==
    (GotBody /\ Returned /\ ~Data.chart_data.present)
        => LET first == HistoryIn(Data, symbols[1])
               chart == result.value.chart_data
           IN  /\ Len(chart) = Len(first)
               /\ \A i \in 1..Len(chart) :
                     /\ chart[i].date = first[i].date
                     /\ DOMAIN chart[i] \subseteq {"date", "portfolio"} \cup SymbolsOf(symbols)
               /\ (symbols[1] \notin DOMAIN Data.histories.v) => chart = <<>>

\* the first symbol's history is shorter than the second one's: the series
\* stops with the first symbol
C12_Witness ==
    /\ GotBody /\ Returned /\ ~Data.chart_data.present
    /\ symbols = <<"B", "A">>
    /\ Len(HistoryIn(Data, "B")) = 1 /\ Len(HistoryIn(Data, "A")) = 2
    /\ Len(result.value.chart_data) = 1
    /\ result.value.chart_data[1].date = DateStr(1, Feed("B"))

----------------------------------------------------------------------------
\* Failed requests (checked under Spec)

\* fetch rejected: the invocation ended without a response
Unreachable == pc = "done" /\ response = NoResponse

\* the backend answered with a status that is not ok
AnsweredNotOk == pc = "done" /\ response # NoResponse /\ ~response.ok

\* C13: when the backend answers with a non-success status or cannot be
\* reached, the promise rejects, no result is returned, the fallback closure
\* has not run, and the error of a non-success answer carries the upstream
\* detail or the upstream status.
C13_FailureCarriesUpstreamCause ==
    (Unreachable \/ AnsweredNotOk)
        => /\ result.k = "rejected"
           /\ result.value = NoValue
           /\ fallbackRuns = 0
           /\ AnsweredNotOk =>
                \/ /\ response.body.parses /\ response.body.detail # ""
                   /\ result.message.text = response.body.detail
                \/ result.message.status = response.status

----------------------------------------------------------------------------
\* Metrics of the result (checked under Spec)

\* the successful response holds every property the function reads
CompleteBody ==
    /\ GotBody
    /\ Data.correlation_matrix.present /\ Data.individual_metrics.present
    /\ Data.portfolio_metrics.present /\ Data.histories.present

\* C15: a listed symbol that the response has neither a history nor metrics
\* for makes the invocation fail with a DataError.
C15_UnknownSymbolRaisesDataError ==
    (/\ CompleteBody
     /\ \E s \in SymbolsOf(symbols) :
           s \notin DOMAIN Data.histories.v /\ s \notin DOMAIN Data.individual_metrics.v)
        => (result.k = "rejected" /\ result.name = "DataError")

\* C16: the returned individual_metrics has an entry for exactly the listed
\* symbols the backend has metrics for, each with the backend's five figures;
\* other backend entries are dropped and listed symbols without metrics are
\* left out, without an error.
C16_IndividualMetricsProjection ==
    CompleteBody
        => /\ Returned
           /\ DOMAIN result.value.individual_metrics
                = SymbolsOf(symbols) \cap DOMAIN Data.individual_metrics.v
           /\ \A s \in DOMAIN result.value.individual_metrics :
                 LET got == result.value.individual_metrics[s]
                     sent == Data.individual_metrics.v[s]
                 IN  <<got.total_return, got.annualized_return, got.volatility,
                       got.sharpe_ratio, got.max_drawdown>>
                       = <<sent.total_return, sent.annualized_return, sent.volatility,
                           sent.sharpe_ratio, sent.max_drawdown>>

\* A and B are listed, the backend has metrics for B and C: B alone is
\* returned
C16_Witness ==
    /\ CompleteBody /\ Returned
    /\ symbols = <<"A", "B">>
    /\ DOMAIN Data.individual_metrics.v = {"B", "C"}
    /\ DOMAIN result.value.individual_metrics = {"B"}
    /\ result.value.individual_metrics["B"].total_return = Num(4 + Feed("B"))

\* C20: the metrics of the result are the backend's portfolio_metrics figures
\* and diversification_ratio as they came; a max_drawdown of -8 stays -8.
C20_PortfolioMetricsPassThrough ==
    (GotBody /\ Returned)
        => LET got == result.value.metrics
               sent == Data.portfolio_metrics.v
           IN  /\ <<got.total_return, got.annualized_return, got.volatility,
                    got.sharpe_ratio, got.max_drawdown>>
                    = <<sent.total_return, sent.annualized_return, sent.volatility,
                        sent.sharpe_ratio, sent.max_drawdown>>
               /\ got.diversification_ratio = Data.diversification_ratio
               /\ sent.max_drawdown = Num(-8) => got.max_drawdown = Num(-8)

\* a portfolio max_drawdown of -8 was returned as -8
C20_Witness ==
    /\ GotBody /\ Returned
    /\ Data.portfolio_metrics.v.max_drawdown = Num(-8)
    /\ result.value.metrics.max_drawdown = Num(-8)
    /\ result.value.metrics.total_return = Num(7)

----------------------------------------------------------------------------
\* Symbols without a correlation row (checked under SpecCorr)

\* a listed symbol that has no row in the correlation_matrix of the response
Rowless(s) ==
    /\ GotBody /\ Data.correlation_matrix.present
    /\ s \in SymbolsOf(symbols)
    /\ s \notin DOMAIN Data.correlation_matrix.v

\* the entries of the returned correlation section that name s
EntriesNaming(s) ==
    {i \in 1..Len(result.value.correlation_matrix) :
        s \in {result.value.correlation_matrix[i].asset1,
               result.value.correlation_matrix[i].asset2}}

\* C17 as stated: a listed symbol without a row in the backend's
\* correlation_matrix is named by no entry of the returned correlation
\* section, and the analysis still returns a result.
C17_RowlessSymbolIsOmitted ==
    \A s \in Syms :
        Rowless(s) => (Returned /\ EntriesNaming(s) = {})

\* C17 amended: the analysis still returns a result, and the returned
\* correlation section keeps every pair naming the symbol: in the symbol's own
\* row the correlation is 1 with itself and 0 with every other symbol, and in
\* the other rows it is what their row supplies for it (0 when nothing or 0
\* is supplied).
C17_RowlessSymbolIsDefaulted ==
    \A s \in Syms :
        Rowless(s) =>
            /\ Returned
            /\ \A t \in SymbolsOf(symbols) :
                  /\ ReturnedFor(s, t) = {IF s = t THEN Num(1) ELSE Num(0)}
                  /\ \E c \in ReturnedFor(t, s) :
                        \/ Supplied(Data, t, s) /\ c = Data.correlation_matrix.v[t][s]
                        \/ ~Supplied(Data, t, s) /\ c = (IF s = t THEN Num(1) ELSE Num(0))
            /\ Cardinality(EntriesNaming(s)) = 2 * Len(symbols) - 1

\* B has no row while A has one that supplies a correlation with B: (B, A) is
\* returned as 0 and (A, B) as supplied
C17_Witness ==
    /\ Rowless("B") /\ Returned
    /\ symbols = <<"A", "B">>
    /\ "A" \in DOMAIN Data.correlation_matrix.v
    /\ Supplied(Data, "A", "B")
    /\ ReturnedFor("B", "A") = {Num(0)}
    /\ ReturnedFor("A", "B") = {Fin(1, 2)}
    /\ ReturnedFor("B", "B") = {Num(1)}

----------------------------------------------------------------------------
\* max_drawdown of the single-asset paths (checked under SpecAsset)

AssetGotBody == assetPc = "done" /\ assetResponse.ok /\ assetResponse.body.parses

AssetReturned == assetPc = "done" /\ assetResult.k = "fulfilled"

\* a finite number below zero
Negative(x) == x.k = "fin" /\ x.n < 0

\* C18: the max_drawdown runStrategy returns is the absolute value of the
\* backend's: never negative, -12.5 comes back as 12.5 and 12.5 as 12.5.
C18_StrategyDrawdownIsMagnitude ==
    (assetCall.op = "runStrategy" /\ AssetGotBody /\ AssetReturned)
        => LET got == assetResult.value.metrics.max_drawdown
               sent == assetResponse.body.data.metrics.v.max_drawdown
           IN  /\ ~Negative(got)
               /\ sent.k = "fin" =>
                     /\ got.k = "fin"
                     /\ got.n = Abs(sent.n) /\ got.d = sent.d
               /\ sent = Fin(-25, 2) => got = Fin(25, 2)
               /\ sent = Fin(25, 2) => got = Fin(25, 2)

\* the backend sent -12.5 and runStrategy returned 12.5
C18_Witness ==
    /\ assetCall.op = "runStrategy" /\ AssetGotBody /\ AssetReturned
    /\ assetResponse.body.data.metrics.v.max_drawdown = Fin(-25, 2)
    /\ assetResult.value.metrics.max_drawdown = Fin(25, 2)

\* C19: the max_drawdown getAssetMetrics returns is a positive magnitude: a
\* negative max_drawdown of the backend never comes back negative.
C19_MetricsDrawdownIsMagnitude ==
    (/\ assetCall.op = "getAssetMetrics" /\ AssetGotBody /\ AssetReturned
     /\ Negative(assetResponse.body.data.max_drawdown))
        => ~Negative(assetResult.value.metrics.max_drawdown)

----------------------------------------------------------------------------
\* The page after a failed analysis (checked under SpecPage)

\* the page has rendered for a settled query whose invocation was rejected
FailureDisplayed ==
    /\ pc = "done" /\ result.k = "rejected"
    /\ page.rendered /\ page.at = "done"

\* C14: once the analysis request has failed (there is no earlier result),
\* the page shows no chart series and no correlation table values, hence no
\* generated data.
C14_FailedAnalysisShowsNoData ==
    FailureDisplayed
        => /\ page.alert
           /\ page.chart.length = 0
           /\ page.chart.source # "generated"
           /\ DOMAIN page.table.cells = {}
           /\ page.table.source # "generated"

----------------------------------------------------------------------------
\* Repeated invocations (checked under SpecAgain)

C23_OneRequestPerInvocation ==
    requests = Len(earlier) + (IF pc = "idle" THEN 0 ELSE 1)

\* a second invocation failed after a failed first one: two requests in all
C23_Witness ==
    /\ Len(earlier) = 1
    /\ earlier[1].result.k = "rejected"
    /\ pc = "done" /\ result.k = "rejected"
    /\ requests = 2

----------------------------------------------------------------------------
\* The fallback series and the rebalance parameter (checked under SpecChart)

\* the values the page offers for rebalance
Rebalances == {"daily", "weekly", "monthly", "quarterly"}

\* the symbols a point of a series has a value for
SymbolsAt(point) == DOMAIN point \ {"date", "portfolio"}

\* C22: for a successful response without chart_data, the portfolio value of
\* every date is the sum over the charted symbols of the symbol's value times
\* the one weight the response gives for it, the same at every date; and the
\* series is the same for every value of rebalance, given the same response.
C22_FallbackIgnoresRebalance ==
    (GotBody /\ ~Data.chart_data.present /\ Returned)
        => LET chart == result.value.chart_data
               weights == result.value.weights
           IN  /\ \A i \in 1..Len(chart) :
                     chart[i].portfolio =
                        SumOver(SymbolsAt(chart[i]),
                                [s \in Syms |->
                                    IF s \in SymbolsAt(chart[i])
                                    THEN JsMul(chart[i][s], Get(weights, s))
                                    ELSE Num(0)],
                                Num(0))
               /\ \A reb \in Rebalances :
                     LET other == Settle(symbols, weighting, reb, response)
                     IN  other.k = "fulfilled" /\ other.value.chart_data = chart

\* a two-date fallback series with weights 1/2: the second date is weighted as
\* the first, and a daily rebalance gives the same series as the monthly one
C22_Witness ==
    /\ GotBody /\ ~Data.chart_data.present /\ Returned
    /\ symbols = <<"A", "B">> /\ rebalance = "monthly"
    /\ Data.weights.present /\ Data.weights.v = ExampleWeights
    /\ Len(result.value.chart_data) = 2
    /\ SymbolsAt(result.value.chart_data[2]) = {"A", "B"}
    /\ result.value.chart_data[2]["A"] = Num(2)
    /\ result.value.chart_data[2]["B"] = Num(1)
    /\ result.value.chart_data[2].portfolio = Fin(3, 2)
    /\ Settle(symbols, weighting, "daily", response).value.chart_data
         = result.value.chart_data

----------------------------------------------------------------------------
\* The selected symbols (checked under SpecSelect)

NoDuplicates(list) ==
    \A i, j \in 1..Len(list) : list[i] = list[j] => i = j

\* the list shown by the last render was changed by a handler
SelectionChanges == page.rendered /\ page.assets = symbols /\ symbols' # symbols

\* C24: starting from the three initial symbols, the selected list always has
\* 2 to 10 entries and no duplicates, and a handler changes it only by
\* appending a symbol not yet selected to a list of fewer than 10 entries or
\* by removing a symbol from a list of more than 2 entries: addAsset of a
\* selected symbol or at 10 entries, and removeAsset at 2 entries, change
\* nothing.
C24_SelectionStaysWithinLimits ==
    /\ [](Len(symbols) \in 2..10 /\ NoDuplicates(symbols))
    /\ [][SelectionChanges =>
            \/ /\ Len(symbols) < 10
               /\ \E a \in OfferedAssets :
                     ~Includes(symbols, a) /\ symbols' = Append(symbols, a)
            \/ /\ Len(symbols) > 2
               /\ \E a \in OfferedAssets :
                     Includes(symbols, a) /\ symbols' = Without(symbols, a)]_vars

\* ten symbols are selected and shown
C24_Witness ==
    /\ Len(symbols) = 10
    /\ page.rendered /\ page.assets = symbols
    /\ Includes(symbols, "BTC-USD")

\* C25: usePortfolioAnalysis leaves the list it is given as it is: a render of
\* the page does not change the order of the selected symbols, so that
\* analyzePortfolio gets them in the order of selection.
C25_HookLeavesSymbolListUnchanged ==
    [][page' # page => symbols' = symbols]_vars

----------------------------------------------------------------------------
\* TradeHistory (checked under SpecTrades)

\* every request issued has completed, and there was one
AllLoadsCompleted == Len(tradeHistory.log) > 0 /\ InFlight = {}

\* the request issued last
LastLoad == tradeHistory.log[Len(tradeHistory.log)]

\* C26: once every request has completed, the trades shown are the response
\* to the request issued last (when that one succeeded): the response to an
\* older request never replaces them.
C26_LatestResponseIsShown ==
    (AllLoadsCompleted /\ ~tradeHistory.effectPending /\ LastLoad.outcome = "ok")
        => tradeHistory.trades = TradesFor(LastLoad.request)

\* C27: isLoading is true while a request is in flight, also when several
\* overlap, and false once none is in flight.
C27_LoadingWhileInFlight ==
    /\ InFlight # {} => tradeHistory.isLoading
    /\ AllLoadsCompleted => ~tradeHistory.isLoading

\* C30: a load that fails leaves the trades shown as they were and ends with
\* isLoading false, which enables the refresh button.
C30_FailedLoadKeepsTrades ==
    [][tradeHistory'.errorToasts = tradeHistory.errorToasts + 1
          => /\ tradeHistory'.trades = tradeHistory.trades
             /\ ~tradeHistory'.isLoading]_vars

\* trades are shown, a later load has failed, and the refresh button is
\* enabled
C30_Witness ==
    /\ Len(tradeHistory.log) = 2
    /\ tradeHistory.log[1].outcome = "ok"
    /\ tradeHistory.log[2].outcome = "failed"
    /\ tradeHistory.errorToasts = 1
    /\ Len(tradeHistory.trades) = 2
    /\ ~tradeHistory.isLoading
    /\ ENABLED ClickRefresh


\* the calls of a name that initializeUser has made
CallsOfInit(name) ==
    {i \in 1..Len(paperTrading.calls) :
        /\ paperTrading.calls[i].name = name
        /\ paperTrading.calls[i].by = "initializeUser"}

\* C28: during the initialization of PaperTrading the user is created at most
\* once and only after the lookup has failed; the portfolio and the signals are
\* requested only after the lookup or the creation succeeded; when the creation
\* fails neither is requested or loaded, and isLoading ends false
C28_InitializationOrder ==
    paperTrading.mounted =>
        /\ Cardinality(CallsOfInit("createPaperTradingUser")) <= 1
        /\ \A i \in CallsOfInit("createPaperTradingUser") :
              /\ paperTrading.lookup = "failed"
              /\ \E j \in CallsOfInit("getPaperTradingUser") : j < i
        /\ CallsOfInit("getPaperPortfolio") \cup CallsOfInit("getActiveSignals") # {}
              => paperTrading.lookup = "ok" \/ paperTrading.creation = "ok"
        /\ paperTrading.creation = "failed"
              => /\ CallsOfInit("getPaperPortfolio") = {}
                 /\ CallsOfInit("getActiveSignals") = {}
                 /\ paperTrading.portfolioLoad = "none"
                 /\ paperTrading.signalsLoad = "none"
                 /\ paperTrading.signals = <<>>
                 /\ ~paperTrading.isLoading
        /\ paperTrading.initPc = "done" => ~paperTrading.isLoading

\* the creation failed and the initialization is over
C28_Witness ==
    /\ paperTrading.mounted
    /\ paperTrading.initPc = "done"
    /\ paperTrading.creation = "failed"
    /\ CallsOfInit("createPaperTradingUser") # {}

\* the runs of executeTrade that reach a stage in this step
Reaching(stage) ==
    {i \in 1..Len(paperTrading'.trades) :
        /\ paperTrading'.trades[i].stage = stage
        /\ i <= Len(paperTrading.trades) => paperTrading.trades[i].stage # stage}

\* the step leaves refreshTrigger, the dialog and the portfolio as they were
LeavesPageAlone ==
    /\ paperTrading'.refreshTrigger = paperTrading.refreshTrigger
    /\ paperTrading'.isTradeDialogOpen = paperTrading.isTradeDialogOpen
    /\ paperTrading'.portfolio = paperTrading.portfolio

\* C29: executeTrade increments refreshTrigger, by exactly one, and closes the
\* dialog only in the step in which the reload of the portfolio finishes after
\* a trade that reported success; a rejected guard makes no call, and a
\* rejected guard, a failed call and a response with success false leave
\* refreshTrigger, the dialog and the portfolio unchanged
C29_RefreshOnlyAfterSuccessfulTrade ==
    [][paperTrading.mounted =>
        /\ paperTrading'.refreshTrigger # paperTrading.refreshTrigger
              => /\ paperTrading'.refreshTrigger = paperTrading.refreshTrigger + 1
                 /\ ~paperTrading'.isTradeDialogOpen
                 /\ \E i \in Reaching("completed") :
                       paperTrading.trades[i].stage = "reloading"
        /\ paperTrading'.trades # paperTrading.trades
              /\ paperTrading.isTradeDialogOpen /\ ~paperTrading'.isTradeDialogOpen
              => Reaching("completed") # {}
        /\ paperTrading.selectedSymbol = "" \/ paperTrading.quantity <= 0
              => \A i \in 1..Len(paperTrading'.calls) :
                    i > Len(paperTrading.calls)
                        => paperTrading'.calls[i].name # "executePaperTrade"
        /\ Reaching("rejected") # {}
              => paperTrading'.calls = paperTrading.calls /\ LeavesPageAlone
        /\ Reaching("failed") # {} => LeavesPageAlone
        /\ Reaching("refused") # {} => LeavesPageAlone]_vars

\* one trade was refused and another completed: the trigger counts one refresh
C29_Witness ==
    /\ paperTrading.mounted
    /\ Len(paperTrading.trades) = 2
    /\ paperTrading.trades[1].stage = "refused"
    /\ paperTrading.trades[2].stage = "completed"
    /\ paperTrading.refreshTrigger = 1
    /\ ~paperTrading.isTradeDialogOpen

====
